---- MODULE Spec2Model ----
(***************************************************************************)
(* Model of the migration engine of packages/db/src/migrate.ts: the        *)
(* Migrator class (initialize, getAppliedMigrations, getMigrationFiles,    *)
(* parseMigration, runMigration, up, down, status) running against a       *)
(* PostgreSQL database that holds the "migrations" ledger table and the    *)
(* schema objects the migration files create and drop.                     *)
(*                                                                         *)
(* The database may reject CREATE TABLE IF NOT EXISTS, the SELECT of the   *)
(* ledger, a statement of a migration block and the ledger INSERT/DELETE;  *)
(* a process may be killed at any await.  Failures of readdir, BEGIN and   *)
(* COMMIT are not modelled; a file that cannot be read is a missing file.  *)
(*                                                                         *)
(* Specifications:                                                         *)
(*   Spec       one Migrator, any sequence of up(), down(steps), status(), *)
(*              with edits of the directory between operations and kills   *)
(*   SpecRace   two Migrators, each running one up() or down(steps)        *)
(*   SpecCli    one run of the command line, with its exit status          *)
(*   SpecParse  parseMigration on every text of bounded length             *)
(***************************************************************************)
EXTENDS Integers, Sequences, FiniteSets, TLC

(***************************************************************************)
(* Bounds of the model.                                                    *)
(***************************************************************************)
MaxEdits == 2   \* edits of the migrations directory by the operator
MaxSteps == 3   \* largest steps argument given to down()
MaxNeg   == 1   \* the smallest steps argument given to down() is -MaxNeg
MaxLen   == 4   \* longest text given to parseMigration, in tokens

(***************************************************************************)
(* File names.  A name is a JavaScript string; Chars gives its UTF-16 code *)
(* units, which is what Array.prototype.sort() and endsWith() look at.     *)
(***************************************************************************)
Names == {"1.sql", "10.sql", "2.sql", "3.txt"}

Chars(n) ==
  CASE n = "1.sql"  -> <<49, 46, 115, 113, 108>>
    [] n = "10.sql" -> <<49, 48, 46, 115, 113, 108>>
    [] n = "2.sql"  -> <<50, 46, 115, 113, 108>>
    [] n = "3.txt"  -> <<51, 46, 116, 120, 116>>

SqlExt == <<46, 115, 113, 108>>   \* '.sql'

\* String.prototype.endsWith
EndsWith(s, suffix) ==
  /\ Len(s) >= Len(suffix)
  /\ SubSeq(s, Len(s) - Len(suffix) + 1, Len(s)) = suffix

\* The default comparison of Array.prototype.sort(): code unit by code unit,
\* a proper prefix sorting first.
RECURSIVE SeqLess(_, _)
SeqLess(a, b) ==
  IF b = <<>> THEN FALSE
  ELSE IF a = <<>> THEN TRUE
  ELSE IF Head(a) < Head(b) THEN TRUE
  ELSE IF Head(a) > Head(b) THEN FALSE
  ELSE SeqLess(Tail(a), Tail(b))

NameLess(x, y) == SeqLess(Chars(x), Chars(y))

RECURSIVE Insert(_, _)
Insert(x, s) ==
  IF s = <<>> THEN <<x>>
  ELSE IF NameLess(x, Head(s)) THEN <<x>> \o s
  ELSE <<Head(s)>> \o Insert(x, Tail(s))

\* Array.prototype.sort() with the default comparison
RECURSIVE Sort(_)
Sort(s) == IF s = <<>> THEN <<>> ELSE Insert(Head(s), Sort(Tail(s)))

\* Array.prototype.reverse()
RECURSIVE Reverse(_)
Reverse(s) == IF s = <<>> THEN <<>> ELSE Reverse(Tail(s)) \o <<Head(s)>>

\* slice(end) in place of slice(0, end)
Slice0Drop(s, end) ==
  LET e == IF end < 0 THEN (IF Len(s) + end < 0 THEN 0 ELSE Len(s) + end)
           ELSE (IF end > Len(s) THEN Len(s) ELSE end)
  IN  SubSeq(s, e + 1, Len(s))

\* Array.prototype.slice(0, end): a negative end counts from the end of the array
Slice0(s, end) ==
  LET e == IF end < 0 THEN (IF Len(s) + end < 0 THEN 0 ELSE Len(s) + end)
           ELSE (IF end > Len(s) THEN Len(s) ELSE end)
  IN  SubSeq(s, 1, e)

Range(s) == {s[i] : i \in 1..Len(s)}

\* Every ordering of a set, as sequences (the orders readdir may return)
Perms(S) ==
  {p \in [1..Cardinality(S) -> S] : \A i, j \in 1..Cardinality(S) : p[i] = p[j] => i = j}

(***************************************************************************)
(* Migration file contents, as sequences of tokens:                        *)
(*   "U" the text '-- +migrate Up', "D" the text '-- +migrate Down',       *)
(*   " " white space,                                                      *)
(*   "c" a statement creating the file's schema object (CREATE TABLE: the  *)
(*       database rejects it when the object exists),                      *)
(*   "d" a statement dropping it (DROP TABLE IF EXISTS),                   *)
(*   "k" a statement the database accepts and that changes nothing,        *)
(*   "x" a statement the database rejects.                                 *)
(***************************************************************************)
UP_MARKER   == <<"U">>
DOWN_MARKER == <<"D">>

Good     == <<"U", " ", "c", " ", "D", " ", "d">>
BadUp    == <<"U", "x", "D", "d">>
BadDown  == <<"U", "c", "D", "x">>
NoInv    == <<"U", "c", "D", "k">>
NoDown   == <<"U", "c">>
Idem     == <<"U", "k", "D", "k">>   \* statements that can be run again
NoFile   == <<"-">>   \* no file of that name in the directory

Contents == {Good, BadUp, BadDown, NoInv, NoDown}

\* String.prototype.indexOf(marker), 0-based, -1 when absent
RECURSIVE IndexFrom(_, _, _)
IndexFrom(s, m, i) ==
  IF i + Len(m) > Len(s) THEN 0 - 1
  ELSE IF SubSeq(s, i + 1, i + Len(m)) = m THEN i
  ELSE IndexFrom(s, m, i + 1)

IndexOf(s, m) == IndexFrom(s, m, 0)

Clamp(i, n) == IF i < 0 THEN 0 ELSE IF i > n THEN n ELSE i

\* String.prototype.substring(start, end): both clamped to [0, length], and
\* swapped when start > end
Substring(s, start, end) ==
  LET a == Clamp(start, Len(s))
      b == Clamp(end, Len(s))
      lo == IF a < b THEN a ELSE b
      hi == IF a < b THEN b ELSE a
  IN  SubSeq(s, lo + 1, hi)

RECURSIVE TrimStart(_)
TrimStart(s) == IF s # <<>> /\ Head(s) = " " THEN TrimStart(Tail(s)) ELSE s

RECURSIVE TrimEnd(_)
TrimEnd(s) ==
  IF s # <<>> /\ s[Len(s)] = " " THEN TrimEnd(SubSeq(s, 1, Len(s) - 1)) ELSE s

\* String.prototype.trim
Trim(s) == TrimEnd(TrimStart(s))

\* Migrator.parseMigration: the blocks, or the error it throws
parseMigration(content) ==
  LET upIndex   == IndexOf(content, UP_MARKER)
      downIndex == IndexOf(content, DOWN_MARKER)
      up   == Trim(Substring(content, upIndex + Len(UP_MARKER), downIndex))
      down == Trim(Substring(content, downIndex + Len(DOWN_MARKER), Len(content)))
  IN  IF upIndex = 0 - 1 THEN [ok |-> FALSE, error |-> "missing Up marker", up |-> <<>>, down |-> <<>>]
      ELSE IF downIndex = 0 - 1 THEN [ok |-> FALSE, error |-> "missing Down marker", up |-> <<>>, down |-> <<>>]
      ELSE IF up = <<>> THEN [ok |-> FALSE, error |-> "empty Up section", up |-> <<>>, down |-> <<>>]
      ELSE IF down = <<>> THEN [ok |-> FALSE, error |-> "empty Down section", up |-> <<>>, down |-> <<>>]
      ELSE [ok |-> TRUE, error |-> "none", up |-> up, down |-> down]

\* What the database does with the statements of one block of migration f,
\* `present` telling whether f's schema object exists when the block starts:
\* whether it accepts them all, and whether the object exists afterwards.
RECURSIVE ExecBlock(_, _)
ExecBlock(block, present) ==
  IF block = <<>> THEN [ok |-> TRUE, present |-> present]
  ELSE IF Head(block) = "x" THEN [ok |-> FALSE, present |-> present]
  ELSE IF Head(block) = "c" THEN
         IF present THEN [ok |-> FALSE, present |-> present]
         ELSE ExecBlock(Tail(block), TRUE)
  ELSE IF Head(block) = "d" THEN ExecBlock(Tail(block), FALSE)
  ELSE ExecBlock(Tail(block), present)


(***************************************************************************)
(* State.                                                                  *)
(*   dir     the migrations directory: the content of each file name       *)
(*   db      the committed database state: whether the migrations table    *)
(*           exists, its rows in id order (ledger), the schema objects that *)
(*           exist (schema), and the migrations whose up-block is the last  *)
(*           of their blocks to have been committed (effects)               *)
(*   active  the Migrator processes run against the database               *)
(*   mig     per Migrator: where the running operation stands, its locals   *)
(*           and its open transaction                                       *)
(*   obs     per Migrator: what an observer of the operation records        *)
(*   edited  what the operator did to the directory since the last          *)
(*           operation started; edits counts the operator's edits           *)
(*   parse   a direct call of parseMigration: its argument and what it      *)
(*           returned or threw                                              *)
(*   cli     per Migrator process started from the command line: its        *)
(*           arguments and its exit status                                  *)
(***************************************************************************)
VARIABLES dir, db, active, mig, obs, edited, edits, parse, cli

vars == <<dir, db, active, mig, obs, edited, edits, parse, cli>>

Runners == {1, 2}
None == "none"
DefaultSteps == 1

Rest == {"idle", "done", "failed", "killed"}

\* the errors runMigration throws
RunErrors == {"ReadFileError", "ParseError", "TransactionError"}

EmptyDb == [table |-> FALSE, ledger |-> <<>>, schema |-> {}, effects |-> {}]

NoTx == [open |-> FALSE, ran |-> FALSE, present |-> FALSE, write |-> None]

\* what status() has printed: nothing yet
NoReport == [lines |-> <<>>, total |-> 0, applied |-> 0, pending |-> 0]

IdleMig ==
  [pc |-> "idle", op |-> None, steps |-> DefaultSteps, applied |-> <<>>,
   files |-> <<>>, list |-> <<>>, idx |-> 0, cur |-> None, direction |-> None,
   sql |-> <<>>, tx |-> NoTx, err |-> None, report |-> NoReport]

\* what the observer keeps of the operation that ended before the running one
NoPrev == [kind |-> None, at |-> None, pre |-> EmptyDb]

FreshObs ==
  [given |-> FALSE, attempted |-> <<>>, pre |-> EmptyDb, preRun |-> EmptyDb,
   nExec |-> 0, nWrite |-> 0, nZero |-> 0, rejected |-> None, prev |-> NoPrev]

\* no direct call of parseMigration
NoResult == [ok |-> FALSE, error |-> None, up |-> <<>>, down |-> <<>>]

NoParse == [text |-> <<>>, called |-> FALSE, result |-> NoResult]

\* process.argv[3]: absent, or its characters
NoArg == [given |-> FALSE, text |-> <<>>]

\* a Migrator that was not started from the command line
NoCli == [command |-> None, arg |-> NoArg, exited |-> FALSE, code |-> 0]

\* the contents the files have when the database is created
InitContents == {Good, BadUp}

IsSql(f) == EndsWith(Chars(f), SqlExt)

Present == {n \in Names : dir[n] # NoFile}

Init ==
  /\ dir \in [Names -> InitContents \cup {NoFile}]
  /\ dir["3.txt"] = Good
  /\ db = EmptyDb
  /\ active = {1}
  /\ mig = [r \in Runners |-> IdleMig]
  /\ obs = [r \in Runners |-> FreshObs]
  /\ edited = None
  /\ edits = 0
  /\ parse = NoParse
  /\ cli = [r \in Runners |-> NoCli]

\* the migration at which the last operation of r failed, if it failed at one
FailedAt(r) ==
  IF mig[r].pc = "failed" /\ mig[r].err \in RunErrors THEN mig[r].cur ELSE None

\* What the observer keeps of the operation of r that has ended, when the next
\* one starts: a successful up() with no edit since ("up ok", with the database
\* state before it), or an up() that failed at a migration which the operator
\* has fixed since, with no other edit ("up fixed", with that migration).
Prev(r) ==
  IF mig[r].op = "up" /\ mig[r].pc = "done" /\ edited = None
  THEN [kind |-> "up ok", at |-> None, pre |-> obs[r].pre]
  ELSE IF mig[r].op = "up" /\ FailedAt(r) # None /\ edited = "fix"
  THEN [kind |-> "up fixed", at |-> FailedAt(r), pre |-> EmptyDb]
  ELSE NoPrev

\* The operator starts an operation o of Migrator r (a call of up(), down(steps)
\* or status()); given tells whether down() got a steps argument.
Start(r, o, given, s) ==
  /\ r \in active
  /\ mig[r].pc \in Rest
  /\ mig' = [mig EXCEPT ![r] =
       [IdleMig EXCEPT !.pc = "init", !.op = o,
                       !.steps = IF given THEN s ELSE DefaultSteps]]
  /\ obs' = [obs EXCEPT ![r] =
       [FreshObs EXCEPT !.given = given, !.pre = db, !.preRun = db,
          !.prev = Prev(r)]]
  /\ edited' = None
  /\ UNCHANGED <<parse, cli, dir, db, active, edits>>

StartUp(r) == Start(r, "up", FALSE, DefaultSteps)

StartDown(r) ==
  \E given \in BOOLEAN, s \in (0 - MaxNeg)..MaxSteps :
    /\ (~given => s = DefaultSteps)
    /\ Start(r, "down", given, s)

StartStatus(r) == Start(r, "status", FALSE, DefaultSteps)

\* The operation of r fails with error e; its open transaction is rolled back.
Failed(r, e) == [mig[r] EXCEPT !.pc = "failed", !.err = e, !.tx = NoTx]

\* initialize() creating the table anew (DROP TABLE, CREATE TABLE)
InitializeRecreate(r) ==
  /\ r \in active
  /\ mig[r].pc = "init"
  /\ \E ok \in BOOLEAN :
       IF ok
       THEN /\ db' = [db EXCEPT !.table = TRUE, !.ledger = <<>>]
            /\ mig' = [mig EXCEPT ![r].pc = "read"]
       ELSE /\ db' = db
            /\ mig' = [mig EXCEPT ![r] = Failed(r, "QueryError")]
  /\ UNCHANGED <<parse, cli, dir, active, obs, edited, edits>>

\* Migrator.initialize: CREATE TABLE IF NOT EXISTS migrations
Initialize(r) ==
  /\ r \in active
  /\ mig[r].pc = "init"
  /\ \E ok \in BOOLEAN :
       IF ok
       THEN /\ db' = [db EXCEPT !.table = TRUE]
            /\ mig' = [mig EXCEPT ![r].pc = "read"]
       ELSE /\ db' = db
            /\ mig' = [mig EXCEPT ![r] = Failed(r, "QueryError")]
  /\ UNCHANGED <<parse, cli, dir, active, obs, edited, edits>>


\* up() without the filter on the applied set
PendingAll(fs, applied) == fs

\* up() refusing the files that sort before an applied migration
PendingAfterLast(fs, applied) ==
  SelectSeq(fs, LAMBDA f : /\ f \notin Range(applied)
                           /\ \A a \in Range(applied) : NameLess(a, f))

\* up(): const pending = files.filter((f) => !applied.has(f))
Pending(fs, applied) == SelectSeq(fs, LAMBDA f : f \notin Range(applied))

\* down() without the reverse()
ToRollbackNoReverse(applied, steps) == Slice0(Sort(applied), steps)

\* down(): Array.from(applied).sort().reverse().slice(0, steps)
ToRollback(applied, steps) == Slice0(Reverse(Sort(applied)), steps)

\* getMigrationFiles without the sort()
getMigrationFilesUnsorted(listing) == SelectSeq(listing, IsSql)

\* getMigrationFiles: files.filter((f) => f.endsWith('.sql')).sort()
getMigrationFiles(listing) == Sort(SelectSeq(listing, IsSql))

\* the for loops with a bound of length - 1
NextPcShort(list, idx) == IF idx + 1 < Len(list) THEN "run" ELSE "done"

\* the for loops of up() and down(): the next call of runMigration, or the end
NextPc(list, idx) == IF idx < Len(list) THEN "run" ELSE "done"

\* down() throwing when there is nothing to roll back
DownPlanThrows(m, applied) ==
  IF Len(applied) = 0
  THEN [m EXCEPT !.applied = applied, !.pc = "failed", !.err = "Error"]
  ELSE LET toRollback == ToRollback(applied, m.steps)
       IN  [m EXCEPT !.applied = applied, !.list = toRollback,
                     !.pc = NextPc(toRollback, 0)]

\* down() leaving out of its rollback list the applied migrations whose file
\* is missing from the migrations directory
DownPlanSkipMissing(m, applied) ==
  IF Len(applied) = 0
  THEN [m EXCEPT !.applied = applied, !.pc = "done"]
  ELSE LET present == SelectSeq(applied, LAMBDA f : dir[f] # NoFile)
           toRollback == ToRollback(present, m.steps)
       IN  [m EXCEPT !.applied = applied, !.list = toRollback,
                     !.pc = NextPc(toRollback, 0)]

\* down(): what follows the read of the applied set
DownPlan(m, applied) ==
  IF Len(applied) = 0
  THEN [m EXCEPT !.applied = applied, !.pc = "done"]
  ELSE LET toRollback == ToRollback(applied, m.steps)
       IN  [m EXCEPT !.applied = applied, !.list = toRollback,
                     !.pc = NextPc(toRollback, 0)]

\* getAppliedMigrations catching the error of the SELECT and returning an
\* empty set
GetAppliedSwallow(r) ==
  /\ r \in active
  /\ mig[r].pc = "read"
  /\ \E ok \in BOOLEAN :
       LET rows == IF ok /\ db.table THEN db.ledger ELSE <<>>
       IN  mig' = [mig EXCEPT ![r] =
              IF mig[r].op = "down" THEN DownPlan(mig[r], rows)
              ELSE [mig[r] EXCEPT !.applied = rows, !.pc = "files"]]
  /\ UNCHANGED <<parse, cli, dir, db, active, obs, edited, edits>>

\* Migrator.getAppliedMigrations: SELECT name FROM migrations ORDER BY id, into
\* a Set (which keeps the order of the rows); in down() the rollback list is
\* computed from it without a further await.
GetApplied(r) ==
  /\ r \in active
  /\ mig[r].pc = "read"
  /\ \E ok \in BOOLEAN :
       IF ok /\ db.table
       THEN mig' = [mig EXCEPT ![r] =
              IF mig[r].op = "down" THEN DownPlan(mig[r], db.ledger)
              ELSE [mig[r] EXCEPT !.applied = db.ledger, !.pc = "files"]]
       ELSE mig' = [mig EXCEPT ![r] = Failed(r, "PostgresError")]
  /\ UNCHANGED <<parse, cli, dir, db, active, obs, edited, edits>>

\* up(): what follows the listing of the migration files
UpPlan(m, files) ==
  LET pending == Pending(files, m.applied)
  IN  [m EXCEPT !.files = files, !.list = pending, !.pc = NextPc(pending, 0)]

\* status(): the line printed for each file, with the mark of an applied
\* migration (a check mark) or of a pending one (a cross), and the counts of
\* the last line: files.length, applied.size and pending.length
statusReport(files, applied) ==
  [lines   |-> [i \in 1..Len(files) |->
                 [mark |-> IF files[i] \in Range(applied) THEN "applied" ELSE "pending",
                  name |-> files[i]]],
   total   |-> Len(files),
   applied |-> Cardinality(Range(applied)),
   pending |-> Len(Pending(files, applied))]

\* status(): what follows the listing of the migration files
StatusPlan(m, files) ==
  [m EXCEPT !.files = files, !.report = statusReport(files, m.applied), !.pc = "done"]

\* Migrator.getMigrationFiles in up() and status(): readdir returns the names
\* in any order.
GetFiles(r) ==
  /\ r \in active
  /\ mig[r].pc = "files"
  /\ \E listing \in Perms(Present) :
       mig' = [mig EXCEPT ![r] =
              IF mig[r].op = "up" THEN UpPlan(mig[r], getMigrationFiles(listing))
              ELSE StatusPlan(mig[r], getMigrationFiles(listing))]
  /\ UNCHANGED <<parse, cli, dir, db, active, obs, edited, edits>>

\* up() and down() catching the error of parseMigration, logging it and going
\* on with the next migration
RunMigrationSkipMalformed(r) ==
  /\ r \in active
  /\ mig[r].pc = "run"
  /\ LET f == mig[r].list[mig[r].idx + 1]
         direction == IF mig[r].op = "up" THEN "up" ELSE "down"
         m == [mig[r] EXCEPT !.cur = f, !.direction = direction]
         parsed == parseMigration(dir[f])
     IN  /\ mig' = [mig EXCEPT ![r] =
                IF dir[f] = NoFile
                THEN [m EXCEPT !.pc = "failed", !.err = "ReadFileError"]
                ELSE IF ~parsed.ok
                THEN [m EXCEPT !.idx = @ + 1, !.pc = NextPc(m.list, m.idx + 1)]
                ELSE [m EXCEPT !.pc = "tx_sql",
                               !.sql = IF direction = "up" THEN parsed.up ELSE parsed.down,
                               !.tx = [NoTx EXCEPT !.open = TRUE]]]
         /\ obs' = [obs EXCEPT ![r].attempted = Append(@, f), ![r].preRun = db,
                               ![r].rejected = None]
  /\ UNCHANGED <<parse, cli, dir, db, active, edited, edits>>

\* runMigration opening the transaction whatever parseMigration found
RunMigrationNoCheck(r) ==
  /\ r \in active
  /\ mig[r].pc = "run"
  /\ LET f == mig[r].list[mig[r].idx + 1]
         direction == IF mig[r].op = "up" THEN "up" ELSE "down"
         m == [mig[r] EXCEPT !.cur = f, !.direction = direction]
         parsed == parseMigration(dir[f])
     IN  /\ mig' = [mig EXCEPT ![r] =
                IF dir[f] = NoFile
                THEN [m EXCEPT !.pc = "failed", !.err = "ReadFileError"]
                ELSE [m EXCEPT !.pc = "tx_sql",
                               !.sql = IF direction = "up" THEN parsed.up ELSE parsed.down,
                               !.tx = [NoTx EXCEPT !.open = TRUE]]]
         /\ obs' = [obs EXCEPT ![r].attempted = Append(@, f), ![r].preRun = db,
                               ![r].rejected = None]
  /\ UNCHANGED <<parse, cli, dir, db, active, edited, edits>>

\* Migrator.runMigration up to sql.begin: readFile, parseMigration, the choice
\* of the block, BEGIN.
RunMigration(r) ==
  /\ r \in active
  /\ mig[r].pc = "run"
  /\ LET f == mig[r].list[mig[r].idx + 1]
         direction == IF mig[r].op = "up" THEN "up" ELSE "down"
         m == [mig[r] EXCEPT !.cur = f, !.direction = direction]
         parsed == parseMigration(dir[f])
     IN  /\ mig' = [mig EXCEPT ![r] =
                IF dir[f] = NoFile
                THEN [m EXCEPT !.pc = "failed", !.err = "ReadFileError"]
                ELSE IF ~parsed.ok
                THEN [m EXCEPT !.pc = "failed", !.err = "ParseError"]
                ELSE [m EXCEPT !.pc = "tx_sql",
                               !.sql = IF direction = "up" THEN parsed.up ELSE parsed.down,
                               !.tx = [NoTx EXCEPT !.open = TRUE]]]
         /\ obs' = [obs EXCEPT ![r].attempted = Append(@, f), ![r].preRun = db,
                               ![r].rejected = None]
  /\ UNCHANGED <<parse, cli, dir, db, active, edited, edits>>

HasToken(block, t) == \E i \in 1..Len(block) : block[i] = t

\* The block r is about to send has to wait for the transaction of another
\* Migrator: that transaction has created the schema object of the same
\* migration, or dropped it while it existed, and has not ended; r's block
\* creates the object, or drops it while it exists.
SchemaWait(r) ==
  LET f == mig[r].cur
      writes(block) == HasToken(block, "c") \/ (HasToken(block, "d") /\ f \in db.schema)
  IN  /\ writes(mig[r].sql)
      /\ \E q \in active \ {r} :
           /\ mig[q].tx.open
           /\ mig[q].tx.ran
           /\ mig[q].cur = f
           /\ writes(mig[q].sql)

\* The ledger write of runMigration for migration f: the INSERT of its row, or
\* the DELETE, which removes the row of that name ("delete") or, when the
\* ledger has no row of that name, removes nothing ("delete0")
ledgerWrite(direction, f, ledger) ==
  IF direction = "up" THEN "insert"
  ELSE IF f \in Range(ledger) THEN "delete"
  ELSE "delete0"

\* The ledger write of r has to wait for the transaction of another Migrator:
\* name is UNIQUE, so an INSERT waits for an open transaction that has inserted
\* or deleted the row of the same name, and a DELETE waits for an open
\* transaction that has deleted that row.
LedgerWait(r) ==
  \E q \in active \ {r} :
    /\ mig[q].tx.open
    /\ mig[q].cur = mig[r].cur
    /\ IF mig[r].direction = "up" THEN mig[q].tx.write \in {"insert", "delete"}
       ELSE mig[q].tx.write = "delete"

\* The database state after the transaction t of migration f commits
Commit(d, t, f, direction) ==
  [table   |-> d.table,
   ledger  |-> IF t.write = "insert" THEN Append(d.ledger, f)
               ELSE IF t.write = "delete" THEN SelectSeq(d.ledger, LAMBDA n : n # f)
               ELSE d.ledger,
   schema  |-> IF ~t.ran THEN d.schema
               ELSE IF t.present THEN d.schema \cup {f} ELSE d.schema \ {f},
   effects |-> IF ~t.ran THEN d.effects
               ELSE IF direction = "up" THEN d.effects \cup {f} ELSE d.effects \ {f}]

\* runMigration with the statements sent outside the transaction
\* (this.sql.unsafe), so that they commit at once
TxUnsafeOutsideTx(r) ==
  /\ r \in active
  /\ mig[r].pc = "tx_sql"
  /\ ~SchemaWait(r)
  /\ LET res == ExecBlock(mig[r].sql, mig[r].cur \in db.schema)
     IN  /\ mig' = [mig EXCEPT ![r] =
                IF res.ok
                THEN [mig[r] EXCEPT !.pc = "tx_write"]
                ELSE Failed(r, "TransactionError")]
         /\ db' = IF res.ok
                  THEN Commit(db, [NoTx EXCEPT !.ran = TRUE, !.present = res.present],
                              mig[r].cur, mig[r].direction)
                  ELSE db
         /\ obs' = [obs EXCEPT ![r].nExec = @ + 1,
                               ![r].rejected = IF res.ok THEN None ELSE "sql"]
  /\ UNCHANGED <<parse, cli, dir, active, edited, edits>>

\* runMigration: await tx.unsafe(sql).  A rejected statement makes sql.begin
\* roll back and rethrow, and the catch wraps the error.
TxUnsafe(r) ==
  /\ r \in active
  /\ mig[r].pc = "tx_sql"
  /\ ~SchemaWait(r)
  /\ LET res == ExecBlock(mig[r].sql, mig[r].cur \in db.schema)
     IN  /\ mig' = [mig EXCEPT ![r] =
                IF res.ok
                THEN [mig[r] EXCEPT !.pc = "tx_write", !.tx.ran = TRUE,
                                    !.tx.present = res.present]
                ELSE Failed(r, "TransactionError")]
         /\ obs' = [obs EXCEPT ![r].nExec = @ + 1,
                               ![r].rejected = IF res.ok THEN None ELSE "sql"]
  /\ UNCHANGED <<parse, cli, dir, db, active, edited, edits>>

\* runMigration against a ledger table whose name column is not UNIQUE
TxLedgerWriteNoUnique(r) ==
  /\ r \in active
  /\ mig[r].pc = "tx_write"
  /\ \E ok \in BOOLEAN :
       LET write == ledgerWrite(mig[r].direction, mig[r].cur, db.ledger)
       IN  /\ mig' = [mig EXCEPT ![r] =
                  IF ok
                  THEN [mig[r] EXCEPT !.pc = "tx_commit", !.tx.write = write]
                  ELSE Failed(r, "TransactionError")]
           /\ obs' = [obs EXCEPT ![r].nWrite = @ + 1,
                                 ![r].rejected = IF ok THEN None ELSE write]
  /\ UNCHANGED <<parse, cli, dir, db, active, edited, edits>>

\* runMigration with the ledger write outside the try block, so that its
\* error is not wrapped
TxLedgerWriteUnwrapped(r) ==
  /\ r \in active
  /\ mig[r].pc = "tx_write"
  /\ ~LedgerWait(r)
  /\ \E ok \in BOOLEAN :
       LET accepted == IF mig[r].direction = "up"
                       THEN ok /\ mig[r].cur \notin Range(db.ledger)
                       ELSE ok
           write == ledgerWrite(mig[r].direction, mig[r].cur, db.ledger)
       IN  /\ mig' = [mig EXCEPT ![r] =
                  IF accepted
                  THEN [mig[r] EXCEPT !.pc = "tx_commit", !.tx.write = write]
                  ELSE Failed(r, "PostgresError")]
           /\ obs' = [obs EXCEPT ![r].nWrite = @ + 1,
                                 ![r].rejected = IF accepted THEN None ELSE write]
  /\ UNCHANGED <<parse, cli, dir, db, active, edited, edits>>

\* runMigration: the INSERT INTO migrations (up) or DELETE FROM migrations
\* (down) inside the transaction; name is UNIQUE.
TxLedgerWrite(r) ==
  /\ r \in active
  /\ mig[r].pc = "tx_write"
  /\ ~LedgerWait(r)
  /\ \E ok \in BOOLEAN :
       LET accepted == IF mig[r].direction = "up"
                       THEN ok /\ mig[r].cur \notin Range(db.ledger)
                       ELSE ok
           write == ledgerWrite(mig[r].direction, mig[r].cur, db.ledger)
       IN  /\ mig' = [mig EXCEPT ![r] =
                  IF accepted
                  THEN [mig[r] EXCEPT !.pc = "tx_commit", !.tx.write = write]
                  ELSE Failed(r, "TransactionError")]
           /\ obs' = [obs EXCEPT ![r].nWrite = @ + 1,
                                 ![r].rejected = IF accepted THEN None ELSE write]
  /\ UNCHANGED <<parse, cli, dir, db, active, edited, edits>>

\* the loops of up() and down() calling runMigration without await: the next
\* migration starts while the transaction of this one has not committed
TxCommitNoWait(r) ==
  /\ r \in active
  /\ mig[r].pc = "tx_commit"
  /\ mig' = [mig EXCEPT ![r].idx = @ + 1, ![r].tx = NoTx,
                        ![r].pc = NextPc(mig[r].list, mig[r].idx + 1)]
  /\ UNCHANGED <<parse, cli, dir, db, active, obs, edited, edits>>

\* runMigration: the callback of sql.begin returns and the transaction commits;
\* then the loop of up() or down() goes on.
TxCommit(r) ==
  /\ r \in active
  /\ mig[r].pc = "tx_commit"
  /\ db' = Commit(db, mig[r].tx, mig[r].cur, mig[r].direction)
  /\ mig' = [mig EXCEPT ![r].idx = @ + 1, ![r].tx = NoTx,
                        ![r].pc = NextPc(mig[r].list, mig[r].idx + 1)]
  /\ obs' = [obs EXCEPT ![r].nZero = IF mig[r].tx.write = "delete0" THEN @ + 1 ELSE @]
  /\ UNCHANGED <<parse, cli, dir, active, edited, edits>>

\* The process of r is killed while an operation runs: the connection drops
\* and the database rolls back the open transaction.
Kill(r) ==
  /\ r \in active
  /\ mig[r].pc \notin Rest
  /\ mig' = [mig EXCEPT ![r] =
       [IdleMig EXCEPT !.pc = "killed",
                       !.err = IF mig[r].tx.open THEN "killed in transaction"
                               ELSE "killed"]]
  /\ obs' = [obs EXCEPT ![r] = FreshObs]
  /\ UNCHANGED <<parse, cli, dir, db, active, edited, edits>>

\* content c parses and the database accepts its up-block
UpRuns(c) ==
  LET p == parseMigration(c)
  IN  p.ok /\ ExecBlock(p.up, FALSE).ok

\* The operator writes, rewrites or removes a file of the migrations directory
\* while no operation runs.  Giving the migration at which the last up() failed
\* a content that parses and whose up-block the database accepts, and editing
\* nothing else, is the fix of that migration.
Edit(n, c) ==
  /\ \A r \in active : mig[r].pc \in Rest
  /\ edits < MaxEdits
  /\ IsSql(n)
  /\ c \in Contents \cup {NoFile}
  /\ c # dir[n]
  /\ dir' = [dir EXCEPT ![n] = c]
  /\ edits' = edits + 1
  /\ edited' = IF /\ edited = None
                  /\ c # NoFile
                  /\ UpRuns(c)
                  /\ \E r \in active : mig[r].op = "up" /\ FailedAt(r) = n
               THEN "fix" ELSE "other"
  /\ UNCHANGED <<parse, cli, db, active, mig, obs>>

Next ==
  \/ \E r \in Runners : StartUp(r)
  \/ \E r \in Runners : StartDown(r)
  \/ \E r \in Runners : StartStatus(r)
  \/ \E r \in Runners : Initialize(r)
  \/ \E r \in Runners : GetApplied(r)
  \/ \E r \in Runners : GetFiles(r)
  \/ \E r \in Runners : RunMigration(r)
  \/ \E r \in Runners : TxUnsafe(r)
  \/ \E r \in Runners : TxLedgerWrite(r)
  \/ \E r \in Runners : TxCommit(r)
  \/ \E r \in Runners : Kill(r)
  \/ \E n \in Names, c \in Contents \cup {NoFile} : Edit(n, c)

Spec == Init /\ [][Next]_vars

(***************************************************************************)
(* Two Migrator processes started at the same time by two operators        *)
(* against one database, each for one up() or down(steps), on a directory  *)
(* that nobody edits.  The database is empty or holds the first migrations *)
(* of the directory, applied by an earlier up().                           *)
(***************************************************************************)
\* the names of S in ascending order
Ascending(S) ==
  CHOOSE s \in Perms(S) : \A i, j \in 1..Len(s) : i < j => NameLess(s[i], s[j])

\* the database after an up() that applied the migrations l of directory d
AppliedDb(d, l) ==
  [table   |-> TRUE,
   ledger  |-> l,
   schema  |-> {f \in Range(l) : ExecBlock(parseMigration(d[f]).up, FALSE).present},
   effects |-> Range(l)]

\* the operations a Migrator is started for: up(), down() and down(s)
Calls ==
  {[op |-> "up", given |-> FALSE, steps |-> DefaultSteps],
   [op |-> "down", given |-> FALSE, steps |-> DefaultSteps]}
    \cup {[op |-> "down", given |-> TRUE, steps |-> s] : s \in (0 - MaxNeg)..MaxSteps}

InitRace ==
  /\ dir \in [Names -> {Good, Idem, NoFile}]
  /\ dir["1.sql"] # NoFile
  /\ dir["10.sql"] = NoFile
  /\ dir["3.txt"] = Good
  /\ \E n \in 0..Cardinality({f \in Names : IsSql(f) /\ dir[f] # NoFile}) :
       db \in {EmptyDb,
               AppliedDb(dir, SubSeq(Ascending({f \in Names : IsSql(f) /\ dir[f] # NoFile}), 1, n))}
  /\ active = Runners
  /\ \E c \in [Runners -> Calls] :
       /\ mig = [r \in Runners |->
                  [IdleMig EXCEPT !.pc = "init", !.op = c[r].op, !.steps = c[r].steps]]
       /\ obs = [r \in Runners |->
                  [FreshObs EXCEPT !.given = c[r].given, !.pre = db, !.preRun = db]]
  /\ edited = None
  /\ edits = 0
  /\ parse = NoParse
  /\ cli = [r \in Runners |-> NoCli]

NextRace ==
  \/ \E r \in Runners : Initialize(r)
  \/ \E r \in Runners : GetApplied(r)
  \/ \E r \in Runners : GetFiles(r)
  \/ \E r \in Runners : RunMigration(r)
  \/ \E r \in Runners : TxUnsafe(r)
  \/ \E r \in Runners : TxLedgerWrite(r)
  \/ \E r \in Runners : TxCommit(r)

SpecRace == InitRace /\ [][NextRace]_vars


(***************************************************************************)
(* The command line: tsx migrate.ts [up|down|status] [steps], run once     *)
(* against a database that is empty or holds the first migrations of the   *)
(* directory.                                                              *)
(***************************************************************************)
Commands == {"up", "down", "status", "reset", "undefined"}

\* process.argv[3]: absent, '', '0', '2', '-1', 'x', '2x'
Args ==
  {NoArg} \cup {[given |-> TRUE, text |-> t] :
                 t \in {<<>>, <<"0">>, <<"2">>, <<"-", "1">>, <<"x">>, <<"2", "x">>}}

IsDigit(c) == c \in {"0", "1", "2"}

DigitValue(c) == CASE c = "0" -> 0 [] c = "1" -> 1 [] c = "2" -> 2

\* the value of the leading digits of s, after the value acc of those read
RECURSIVE LeadingDigits(_, _)
LeadingDigits(s, acc) ==
  IF s = <<>> \/ ~IsDigit(Head(s)) THEN acc
  ELSE LeadingDigits(Tail(s), 10 * acc + DigitValue(Head(s)))

\* parseInt(s, 10): an optional sign and the leading digits; NaN without digit
parseInt(s) ==
  LET neg == s # <<>> /\ Head(s) = "-"
      body == IF neg THEN Tail(s) ELSE s
  IN  IF body = <<>> \/ ~IsDigit(Head(body)) THEN [nan |-> TRUE, val |-> 0]
      ELSE [nan |-> FALSE,
            val |-> IF neg THEN 0 - LeadingDigits(body, 0) ELSE LeadingDigits(body, 0)]

\* const steps = process.argv[3] ? parseInt(process.argv[3], 10) : 1, as
\* slice(0, steps) sees it: slice takes NaN for 0
cliSteps(arg) ==
  IF ~arg.given \/ arg.text = <<>> THEN DefaultSteps
  ELSE IF parseInt(arg.text).nan THEN 0
  ELSE parseInt(arg.text).val

InitCli ==
  /\ dir \in [Names -> {Good, BadUp, BadDown, NoDown, NoFile}]
  /\ dir["1.sql"] # NoFile
  /\ dir["2.sql"] \in {Good, NoFile}
  /\ dir["10.sql"] = NoFile
  /\ dir["3.txt"] = Good
  /\ \E n \in 0..2 :
       LET src == Ascending({f \in Names : IsSql(f) /\ dir[f] # NoFile})
       IN  /\ n <= Len(src)
           /\ \A i \in 1..n : UpRuns(dir[src[i]])
           /\ db \in {EmptyDb, AppliedDb(dir, SubSeq(src, 1, n))}
  /\ active = {1}
  /\ mig = [r \in Runners |-> IdleMig]
  /\ obs = [r \in Runners |-> FreshObs]
  /\ edited = None
  /\ edits = 0
  /\ parse = NoParse
  /\ \E c \in Commands, a \in Args :
       cli = [r \in Runners |->
               IF r = 1 THEN [NoCli EXCEPT !.command = c, !.arg = a] ELSE NoCli]

\* run(): the switch on the command calls up(), down(steps) or status(), or
\* prints the usage and calls process.exit(1)
CliRun(r) ==
  /\ r \in active
  /\ cli[r].command # None
  /\ ~cli[r].exited
  /\ mig[r].pc = "idle"
  /\ IF cli[r].command \in {"up", "down", "status"}
     THEN /\ mig' = [mig EXCEPT ![r] =
                 [IdleMig EXCEPT !.pc = "init", !.op = cli[r].command,
                    !.steps = IF cli[r].command = "down" THEN cliSteps(cli[r].arg)
                              ELSE DefaultSteps]]
          /\ obs' = [obs EXCEPT ![r] =
                 [FreshObs EXCEPT !.given = (cli[r].command = "down"),
                                  !.pre = db, !.preRun = db]]
          /\ cli' = cli
     ELSE /\ cli' = [cli EXCEPT ![r].exited = TRUE, ![r].code = 1]
          /\ UNCHANGED <<mig, obs>>
  /\ UNCHANGED <<dir, db, active, edited, edits, parse>>

\* run() with a catch that logs the error and does not exit
CliCatchNoExit(r) ==
  /\ r \in active
  /\ cli[r].command # None
  /\ ~cli[r].exited
  /\ mig[r].pc = "failed"
  /\ cli' = [cli EXCEPT ![r].exited = TRUE, ![r].code = 0]
  /\ UNCHANGED <<dir, db, active, mig, obs, edited, edits, parse>>

\* run(): catch (error) { logger.error(...); process.exit(1) }
CliCatch(r) ==
  /\ r \in active
  /\ cli[r].command # None
  /\ ~cli[r].exited
  /\ mig[r].pc = "failed"
  /\ cli' = [cli EXCEPT ![r].exited = TRUE, ![r].code = 1]
  /\ UNCHANGED <<dir, db, active, mig, obs, edited, edits, parse>>

\* run(): the operation returned; finally closes the connection and the
\* process ends with status 0
CliFinish(r) ==
  /\ r \in active
  /\ cli[r].command # None
  /\ ~cli[r].exited
  /\ mig[r].pc = "done"
  /\ cli' = [cli EXCEPT ![r].exited = TRUE, ![r].code = 0]
  /\ UNCHANGED <<dir, db, active, mig, obs, edited, edits, parse>>

NextCli ==
  \/ \E r \in Runners : CliRun(r)
  \/ \E r \in Runners : Initialize(r)
  \/ \E r \in Runners : GetApplied(r)
  \/ \E r \in Runners : GetFiles(r)
  \/ \E r \in Runners : RunMigration(r)
  \/ \E r \in Runners : TxUnsafe(r)
  \/ \E r \in Runners : TxLedgerWrite(r)
  \/ \E r \in Runners : TxCommit(r)
  \/ \E r \in Runners : CliCatch(r)
  \/ \E r \in Runners : CliFinish(r)

SpecCli == InitCli /\ [][NextCli]_vars

(***************************************************************************)
(* parseMigration called on its own, as the unit tests do, with every text *)
(* of at most MaxLen tokens: the two markers, white space and a statement. *)
(***************************************************************************)
Alphabet == {"U", "D", " ", "c"}

Texts == UNION {[1..n -> Alphabet] : n \in 0..MaxLen}

InitParse ==
  /\ dir = [n \in Names |-> NoFile]
  /\ db = EmptyDb
  /\ active = {}
  /\ mig = [r \in Runners |-> IdleMig]
  /\ obs = [r \in Runners |-> FreshObs]
  /\ edited = None
  /\ edits = 0
  /\ parse \in {[NoParse EXCEPT !.text = t] : t \in Texts}
  /\ cli = [r \in Runners |-> NoCli]

\* migrator.parseMigration(content)
ParseText ==
  /\ ~parse.called
  /\ parse' = [parse EXCEPT !.called = TRUE, !.result = parseMigration(parse.text)]
  /\ UNCHANGED <<dir, db, active, mig, obs, edited, edits, cli>>

NextParse == ParseText

SpecParse == InitParse /\ [][NextParse]_vars

(***************************************************************************)
(* Properties.                                                             *)
(***************************************************************************)
Min(a, b) == IF a < b THEN a ELSE b

IsPrefix(s, t) == Len(s) <= Len(t) /\ s = SubSeq(t, 1, Len(s))

\* the .sql files of the directory
SourceFiles == {n \in Present : IsSql(n)}

\* r runs or has ended an up() that got as far as the list of pending files
UpListed(r) ==
  /\ mig[r].op = "up"
  /\ \/ mig[r].pc \in {"run", "tx_sql", "tx_write", "tx_commit", "done"}
     \/ FailedAt(r) # None

\* up() of r failed at a migration
UpFailedAt(r) == mig[r].op = "up" /\ FailedAt(r) # None

\* C1: in every committed database state, whatever sequence of up(), down()
\* and status() calls, rejected statements and kills led to it, a migration is
\* in the ledger exactly when its up-block is the last of its blocks whose
\* execution is committed.
C1_LedgerSchemaAgree == Range(db.ledger) = db.effects

\* a Migrator was killed inside a transaction of runMigration, after other
\* migrations had been committed
C1_Witness ==
  \E r \in active :
    /\ mig[r].pc = "killed"
    /\ mig[r].err = "killed in transaction"
    /\ Len(db.ledger) >= 1

\* C2: when the database rejects the migration SQL or the ledger write inside
\* runMigration, the call fails with a TransactionError and the database is
\* what it was when runMigration was called.
C2_RejectionRollsBack ==
  \A r \in active :
    obs[r].rejected # None =>
      /\ mig[r].pc = "failed"
      /\ mig[r].err = "TransactionError"
      /\ db = obs[r].preRun

\* the ledger insert of an up migration was rejected after its statements ran
C2_Witness ==
  \E r \in active : obs[r].rejected = "insert" /\ Len(db.ledger) >= 1

\* C3 as stated: after up() failed at migration m, every file before m in
\* source order is in the ledger, m and every file after it are not, and nothing
\* after m was attempted.
C3_Original ==
  \A r \in active :
    (UpFailedAt(r) /\ edited = None) =>
      LET m == mig[r].cur
      IN  /\ \A f \in SourceFiles :
               /\ NameLess(f, m) => f \in Range(db.ledger)
               /\ ~NameLess(f, m) => f \notin Range(db.ledger)
          /\ \A i \in 1..Len(obs[r].attempted) : ~NameLess(m, obs[r].attempted[i])

\* C3: after up() failed at migration m, every file before m in source order
\* is in the ledger, m is not, a file after m is in the ledger exactly when it
\* was there before the call, and nothing after m was attempted.
C3_FailFastUp ==
  \A r \in active :
    (UpFailedAt(r) /\ edited = None) =>
      LET m == mig[r].cur
      IN  /\ \A f \in SourceFiles :
               /\ NameLess(f, m) => f \in Range(db.ledger)
               /\ f = m => f \notin Range(db.ledger)
               /\ NameLess(m, f) =>
                    (f \in Range(db.ledger) <=> f \in Range(obs[r].pre.ledger))
          /\ \A i \in 1..Len(obs[r].attempted) : ~NameLess(m, obs[r].attempted[i])

\* up() failed at the second of three pending migrations
C3_Witness ==
  \E r \in active :
    /\ UpFailedAt(r)
    /\ edited = None
    /\ Len(mig[r].list) = 3
    /\ mig[r].idx = 1
    /\ Len(db.ledger) = 1


\* r runs or has ended the up() that follows a failed up() whose failing
\* migration was fixed, and has got as far as the list of pending files
Resumed(r) == UpListed(r) /\ obs[r].prev.kind = "up fixed"

\* C4 as stated: the up() after the fix of m attempts m and the files after m
\* in source order, in that order (as far as the first that fails, all of them
\* when it succeeds), and none that was in the ledger when it started.
C4_Original ==
  \A r \in active :
    (Resumed(r) /\ edited = None) =>
      LET m == obs[r].prev.at
          expected == Ascending({f \in SourceFiles : f = m \/ NameLess(m, f)})
      IN  /\ IsPrefix(obs[r].attempted, expected)
          /\ mig[r].pc = "done" => obs[r].attempted = expected
          /\ \A i \in 1..Len(obs[r].attempted) :
               obs[r].attempted[i] \notin Range(obs[r].pre.ledger)

\* C4: the up() after the fix of m has as its pending list m followed by the
\* files after m in source order that are not in the ledger, attempts them in
\* that order up to the first that fails (all of them when it succeeds), and
\* attempts no migration that was in the ledger when it started.
C4_ResumeAfterFix ==
  \A r \in active :
    (Resumed(r) /\ edited = None) =>
      LET m == obs[r].prev.at
          rest == {f \in SourceFiles :
                     NameLess(m, f) /\ f \notin Range(obs[r].pre.ledger)}
      IN  /\ Len(mig[r].list) = 1 + Cardinality(rest)
          /\ mig[r].list[1] = m
          /\ Range(mig[r].list) = {m} \cup rest
          /\ \A i, j \in 1..Len(mig[r].list) :
               i < j => NameLess(mig[r].list[i], mig[r].list[j])
          /\ IsPrefix(obs[r].attempted, mig[r].list)
          /\ mig[r].pc = "done" => obs[r].attempted = mig[r].list
          /\ FailedAt(r) # None =>
               obs[r].attempted = SubSeq(mig[r].list, 1, mig[r].idx + 1)
          /\ \A i \in 1..Len(obs[r].attempted) :
               obs[r].attempted[i] \notin Range(obs[r].pre.ledger)

\* the up() after the fix has applied the fixed migration and the one after it
C4_Witness ==
  \E r \in active :
    /\ Resumed(r)
    /\ edited = None
    /\ mig[r].pc = "done"
    /\ Len(obs[r].attempted) = 2
    /\ Len(obs[r].pre.ledger) >= 1

\* C5: an up() that follows a successful up(), with no edit of the directory
\* in between, calls runMigration for nothing, executes no migration statement,
\* writes nothing to the ledger and leaves the database as it was.
C5_UpIdempotent ==
  \A r \in active :
    (mig[r].op = "up" /\ obs[r].prev.kind = "up ok") =>
      /\ obs[r].attempted = <<>>
      /\ obs[r].nExec = 0
      /\ obs[r].nWrite = 0
      /\ db = obs[r].pre
      /\ FailedAt(r) = None

\* the second up() has returned, the first having applied two migrations or more
C5_Witness ==
  \E r \in active :
    /\ mig[r].op = "up"
    /\ obs[r].prev.kind = "up ok"
    /\ mig[r].pc = "done"
    /\ Len(db.ledger) >= Len(obs[r].prev.pre.ledger) + 2

\* the down-block of content c undoes its up-block
Inverts(c) ==
  LET p == parseMigration(c)
      u == ExecBlock(p.up, FALSE)
  IN  /\ p.ok
      /\ u.ok
      /\ ExecBlock(p.down, u.present) = [ok |-> TRUE, present |-> FALSE]

\* r has ended successfully the down(1) that follows at once a successful
\* up(), every file of the directory having a down-block that undoes its
\* up-block
RoundTrip(r) ==
  /\ mig[r].op = "down"
  /\ mig[r].steps = 1
  /\ mig[r].pc = "done"
  /\ obs[r].prev.kind = "up ok"
  /\ edited = None
  /\ \A n \in SourceFiles : Inverts(dir[n])

AppliedOneLast(r) ==
  /\ Len(obs[r].pre.ledger) = Len(obs[r].prev.pre.ledger) + 1
  /\ \A f \in Range(obs[r].prev.pre.ledger) :
       NameLess(f, obs[r].pre.ledger[Len(obs[r].pre.ledger)])

C7_UpOrder ==
  \A r \in active :
    (UpListed(r) /\ edited = None) =>
      /\ Range(mig[r].list) = SourceFiles \ Range(obs[r].pre.ledger)
      /\ \A i, j \in 1..Len(mig[r].list) :
           i < j => NameLess(mig[r].list[i], mig[r].list[j])
      /\ IsPrefix(obs[r].attempted, mig[r].list)
      /\ \A i \in 1..(Len(obs[r].attempted) - 1) :
           obs[r].attempted[i] \in Range(db.ledger)

\* the third pending migration is started
C7_Witness ==
  \E r \in active :
    /\ UpListed(r)
    /\ mig[r].pc = "tx_sql"
    /\ Len(obs[r].attempted) = 3

\* r runs or has ended a down() that got as far as its rollback list
DownListed(r) ==
  /\ mig[r].op = "down"
  /\ \/ mig[r].pc \in {"run", "tx_sql", "tx_write", "tx_commit", "done"}
     \/ FailedAt(r) # None

\* C8 as stated: down(steps) takes the steps most recently applied
\* migrations, the most recently applied first, and reverts them in that order.
C8_Original ==
  \A r \in active :
    (DownListed(r) /\ mig[r].steps >= 1) =>
      /\ mig[r].list = SubSeq(Reverse(obs[r].pre.ledger), 1,
                              Min(mig[r].steps, Len(obs[r].pre.ledger)))
      /\ IsPrefix(obs[r].attempted, mig[r].list)

\* C9: a successful down(steps) with steps >= 1 on a ledger of n entries
\* removes min(steps, n) of them and leaves the others as they were; steps > n
\* empties the ledger; without an argument steps is 1.
C9_DownStepCount ==
  \A r \in active :
    (mig[r].op = "down" /\ mig[r].pc = "done" /\ mig[r].steps >= 1) =>
      LET n == Len(obs[r].pre.ledger)
      IN  /\ Len(db.ledger) = n - Min(mig[r].steps, n)
          /\ db.ledger = SelectSeq(obs[r].pre.ledger, LAMBDA f : f \in Range(db.ledger))
          /\ mig[r].steps > n => db.ledger = <<>>
          /\ ~obs[r].given => Len(db.ledger) = n - Min(1, n)

\* down(3) has reverted the two migrations of the ledger
C9_Witness ==
  \E r \in active :
    /\ mig[r].op = "down"
    /\ mig[r].pc = "done"
    /\ mig[r].steps = 3
    /\ Len(obs[r].pre.ledger) = 2
    /\ db.ledger = <<>>

\* r runs a down() that has read an empty ledger
DownOnEmpty(r) ==
  /\ mig[r].op = "down"
  /\ mig[r].pc \notin {"init", "read"}
  /\ mig[r].err \notin {"QueryError", "PostgresError"}
  /\ obs[r].pre.ledger = <<>>

\* C10: down() on an empty ledger returns normally, whatever steps is, without
\* a call of runMigration, a migration statement or a ledger write.
C10_DownEmptyNoOp ==
  \A r \in active :
    DownOnEmpty(r) =>
      /\ mig[r].pc = "done"
      /\ obs[r].attempted = <<>>
      /\ obs[r].nExec = 0
      /\ obs[r].nWrite = 0
      /\ db = [obs[r].pre EXCEPT !.table = TRUE]

\* down(3) has returned on an empty ledger
C10_Witness ==
  \E r \in active :
    /\ DownOnEmpty(r)
    /\ mig[r].pc = "done"
    /\ obs[r].given
    /\ mig[r].steps = 3

\* C11: when up() returns normally, every .sql file of the directory is in the
\* ledger and the pending set is empty; a file whose name sorts before a name
\* that was already applied is applied as well.
C11_UpPostcondition ==
  \A r \in active :
    (mig[r].op = "up" /\ mig[r].pc = "done" /\ edited = None) =>
      /\ SourceFiles \subseteq Range(db.ledger)
      /\ Pending(Ascending(SourceFiles), db.ledger) = <<>>

\* up() has returned after applying a file whose name sorts before a name
\* that was in the ledger when it started
C11_Witness ==
  \E r \in active :
    /\ mig[r].op = "up"
    /\ mig[r].pc = "done"
    /\ edited = None
    /\ \E i \in 1..Len(obs[r].attempted) :
         \E a \in Range(obs[r].pre.ledger) :
           /\ NameLess(obs[r].attempted[i], a)
           /\ obs[r].attempted[i] \in Range(db.ledger)

\* C12: in every reachable state of the database, whatever up() and down()
\* calls of one or two Migrators led to it, no name is in two rows of the
\* ledger.
C12_LedgerUnique ==
  \A i, j \in 1..Len(db.ledger) : db.ledger[i] = db.ledger[j] => i = j

\* two up() calls read the same empty ledger; one has committed a migration
\* and the INSERT of the other for the same name was rejected after its
\* statements ran
C12_Witness ==
  \E r \in Runners : \E q \in Runners \ {r} :
    /\ mig[r].op = "up" /\ mig[q].op = "up"
    /\ obs[r].pre.ledger = <<>> /\ obs[q].pre.ledger = <<>>
    /\ obs[r].rejected = "insert"
    /\ mig[r].cur \in Range(db.ledger)
    /\ mig[r].cur \in Range(obs[q].attempted)

\* status() of r has returned and the directory is as it was
StatusDone(r) == mig[r].op = "status" /\ mig[r].pc = "done" /\ edited = None

\* C13 as stated: status() prints one line per .sql file of the directory, in
\* ascending order of name, marked applied exactly when the name is in the
\* ledger, and reports Total = number of files, Applied = number of files
\* that are in the ledger, Pending = number of files that are not.
C13_Original ==
  \A r \in active :
    StatusDone(r) =>
      LET rep == mig[r].report
          src == Ascending(SourceFiles)
      IN  /\ Len(rep.lines) = Len(src)
          /\ \A i \in 1..Len(src) :
               /\ rep.lines[i].name = src[i]
               /\ rep.lines[i].mark = "applied" <=> src[i] \in Range(db.ledger)
               /\ rep.lines[i].mark = "pending" <=> src[i] \notin Range(db.ledger)
          /\ rep.total = Cardinality(SourceFiles)
          /\ rep.applied = Cardinality(SourceFiles \cap Range(db.ledger))
          /\ rep.pending = Cardinality(SourceFiles \ Range(db.ledger))

\* C14 as stated: a status() call, whatever the database state it starts in,
\* leaves the database (ledger table, ledger rows, schema objects) as it was.
C14_Original ==
  \A r \in active : mig[r].op = "status" => db = obs[r].pre

\* C14: a status() call executes no migration statement and no ledger write,
\* and leaves the ledger rows and the schema objects of the migrations as they
\* were; when the ledger table exists it changes nothing, and when the table
\* does not exist its initialize() step creates it, empty.
C14_StatusReadOnly ==
  \A r \in active :
    mig[r].op = "status" =>
      /\ db.ledger = obs[r].pre.ledger
      /\ db.schema = obs[r].pre.schema
      /\ db.effects = obs[r].pre.effects
      /\ obs[r].pre.table => db = obs[r].pre
      /\ mig[r].pc \notin {"init", "failed"} => db.table
      /\ obs[r].attempted = <<>>
      /\ obs[r].nExec = 0
      /\ obs[r].nWrite = 0

\* status() has returned on a database with two applied migrations and a
\* pending one
C14_Witness ==
  \E r \in active :
    /\ StatusDone(r)
    /\ Len(obs[r].pre.ledger) = 2
    /\ mig[r].report.pending = 1

\* positions of the first markers of the text given to parseMigration
UpAt == IndexOf(parse.text, UP_MARKER)
DownAt == IndexOf(parse.text, DOWN_MARKER)

\* the text of s after position from, up to the next Down marker or to the end
SectionAfter(s, from) ==
  LET rest == SubSeq(s, from + 1, Len(s))
      k == IndexOf(rest, DOWN_MARKER)
  IN  IF k = 0 - 1 THEN rest ELSE SubSeq(rest, 1, k)

\* the text between the end of the first Up marker and the start of the first
\* Down marker (none when the Down marker comes first)
BetweenMarkers == SubSeq(parse.text, UpAt + Len(UP_MARKER) + 1, DownAt)

\* the text after the first Down marker
AfterDown == SubSeq(parse.text, DownAt + Len(DOWN_MARKER) + 1, Len(parse.text))

\* C15 as stated: when parseMigration accepts a text, the up block is the
\* trimmed text between the end of the first Up marker and the start of the
\* first Down marker, the down block is the trimmed text after the first Down
\* marker, and the up block holds nothing of the down section (no Down marker).
C15_Original ==
  (parse.called /\ parse.result.ok) =>
    /\ parse.result.up = Trim(BetweenMarkers)
    /\ parse.result.down = Trim(AfterDown)
    /\ IndexOf(parse.result.up, DOWN_MARKER) = 0 - 1

\* C16 as stated: parseMigration fails, with no blocks and with the error of
\* the case, for a text without Up marker, without Down marker, with an up
\* section (the text after the Up marker, up to the next Down marker) that is
\* empty after trimming, or with a down section (the text after the Down
\* marker) that is empty after trimming.
C16_Original ==
  parse.called =>
    LET res == parse.result
        upEmpty == Trim(SectionAfter(parse.text, UpAt + Len(UP_MARKER))) = <<>>
        downEmpty == Trim(AfterDown) = <<>>
    IN  /\ UpAt = 0 - 1 => (~res.ok /\ res.error = "missing Up marker")
        /\ (UpAt # 0 - 1 /\ DownAt = 0 - 1) =>
             (~res.ok /\ res.error = "missing Down marker")
        /\ (UpAt # 0 - 1 /\ DownAt # 0 - 1 /\ upEmpty) =>
             (~res.ok /\ res.error = "empty Up section")
        /\ (UpAt # 0 - 1 /\ DownAt # 0 - 1 /\ ~upEmpty /\ downEmpty) =>
             (~res.ok /\ res.error = "empty Down section")
        /\ ~res.ok => (res.up = <<>> /\ res.down = <<>>)

\* C17 as stated: parseMigration accepts a text only if its first Up marker
\* comes before its first Down marker.
C17_Original ==
  (parse.called /\ parse.result.ok) => (UpAt # 0 - 1 /\ UpAt < DownAt)

\* the migration that up() or down() of r has reached is a file that
\* parseMigration rejects
AtMalformed(r) ==
  /\ mig[r].op \in {"up", "down"}
  /\ mig[r].cur # None
  /\ edited = None
  /\ dir[mig[r].cur] # NoFile
  /\ ~parseMigration(dir[mig[r].cur]).ok

\* C18: when up() or down() reaches a file that parseMigration rejects, the
\* call fails with the parse error without a transaction for that file: no
\* statement is executed and no ledger write is made beyond those of the
\* migrations committed before it, and the database is as it was when
\* runMigration was called for the file.
C18_MalformedTouchesNothing ==
  \A r \in active :
    AtMalformed(r) =>
      /\ mig[r].pc = "failed"
      /\ mig[r].err = "ParseError"
      /\ ~mig[r].tx.open
      /\ mig[r].tx = NoTx
      /\ db = obs[r].preRun
      /\ obs[r].nExec = mig[r].idx
      /\ obs[r].nWrite = mig[r].idx
      /\ obs[r].rejected = None

\* down() has reverted one migration and failed at the second of its list,
\* a file without Down marker
C18_Witness ==
  \E r \in active :
    /\ AtMalformed(r)
    /\ mig[r].op = "down"
    /\ mig[r].idx = 1
    /\ mig[r].cur \in Range(db.ledger)

\* the operation of r failed in initialize() or in getAppliedMigrations()
LedgerFailed(r) ==
  /\ mig[r].op \in {"up", "down", "status"}
  /\ mig[r].pc = "failed"
  /\ mig[r].err \in {"QueryError", "PostgresError"}

C20_ExitStatus ==
  \A r \in active :
    LET known == cli[r].command \in {"up", "down", "status"}
    IN  /\ (cli[r].command # None /\ ~known) => mig[r].op = None
        /\ cli[r].exited =>
             /\ cli[r].code \in {0, 1}
             /\ cli[r].code = 0 <=> (known /\ mig[r].pc = "done")
             /\ cli[r].code = 1 <=> (~known \/ mig[r].pc = "failed")
             /\ known => mig[r].op = cli[r].command

\* the process of a down command has exited with status 1 after the database
\* rejected the down-block of a migration
C20_Witness ==
  \E r \in active :
    /\ cli[r].command = "down"
    /\ cli[r].exited
    /\ cli[r].code = 1
    /\ mig[r].err = "TransactionError"
    /\ obs[r].rejected = "sql"

\* What the error thrown out of runMigration for migration m.cur tells: the
\* error of readFile names the path of the file; the Error of parseMigration
\* names the missing marker or the empty section only; the TransactionError
\* has the message 'Failed to <direction> migration: <filename>' and the
\* database error in its details.
thrownError(m) ==
  CASE m.err = "ReadFileError" ->
         [name |-> m.cur, direction |-> None, cause |-> "ENOENT"]
    [] m.err = "ParseError" ->
         [name |-> None, direction |-> None, cause |-> parseMigration(dir[m.cur]).error]
    [] m.err = "TransactionError" ->
         [name |-> m.cur, direction |-> m.direction, cause |-> "PostgresError"]
    [] OTHER -> [name |-> None, direction |-> None, cause |-> None]

\* C21 as stated: the error with which up() or down() fails at a migration
\* gives the name of that migration and the direction, and carries the cause.
C21_Original ==
  \A r \in active :
    (mig[r].op \in {"up", "down"} /\ FailedAt(r) # None /\ edited = None) =>
      /\ thrownError(mig[r]).name = mig[r].cur
      /\ thrownError(mig[r]).direction = mig[r].direction
      /\ thrownError(mig[r]).cause # None

\* C28 as stated: a down(steps) that returns on a ledger of n rows has removed
\* min(max(steps, 0), n) of them, none when steps <= 0.
C28_Original ==
  \A r \in active :
    (mig[r].op = "down" /\ mig[r].pc = "done") =>
      LET n == Len(obs[r].pre.ledger)
          k == IF mig[r].steps < 0 THEN 0 ELSE Min(mig[r].steps, n)
      IN  Len(db.ledger) = n - k

\* C29 as stated: in the report of status(), Total = Applied + Pending.
C29_Original ==
  \A r \in active :
    (mig[r].op = "status" /\ mig[r].pc = "done") =>
      mig[r].report.total = mig[r].report.applied + mig[r].report.pending

NoDuplicate(s) == \A i, j \in 1..Len(s) : s[i] = s[j] => i = j

\* C22: within one up() or down(), runMigration is called at most once for a
\* migration and its block and its ledger write are sent at most once; a
\* rejected statement or ledger write ends the operation as failed; and an
\* operation that has returned normally found the ledger table, and read,
\* parsed, executed and committed every migration it called runMigration for.
C22_NoRetryNoSwallow ==
  \A r \in active :
    mig[r].op \in {"up", "down"} =>
      /\ NoDuplicate(obs[r].attempted)
      /\ obs[r].nExec <= Len(obs[r].attempted)
      /\ obs[r].nWrite <= obs[r].nExec
      /\ obs[r].rejected # None => mig[r].pc = "failed"
      /\ mig[r].pc = "failed" => mig[r].err # None
      /\ (mig[r].pc = "done" /\ edited = None) =>
           /\ db.table
           /\ obs[r].rejected = None
           /\ mig[r].err = None
           /\ obs[r].attempted = mig[r].list
           /\ obs[r].nExec = Len(mig[r].list)
           /\ obs[r].nWrite = Len(mig[r].list)
           /\ \A i \in 1..Len(mig[r].list) :
                /\ dir[mig[r].list[i]] # NoFile
                /\ parseMigration(dir[mig[r].list[i]]).ok
                /\ mig[r].op = "up" => mig[r].list[i] \in Range(db.ledger)
                /\ mig[r].op = "down" => mig[r].list[i] \notin Range(db.ledger)

\* up() has failed at its third migration, after a rejected statement, having
\* sent three blocks and two ledger writes
C22_Witness ==
  \E r \in active :
    /\ mig[r].op = "up"
    /\ mig[r].pc = "failed"
    /\ obs[r].rejected = "sql"
    /\ Len(obs[r].attempted) = 3
    /\ obs[r].nExec = 3
    /\ obs[r].nWrite = 2

\* down() of r failed at a migration
DownFailedAt(r) == mig[r].op = "down" /\ FailedAt(r) # None /\ edited = None

\* C23: after down(steps) failed at the k-th migration of its rollback list,
\* the k - 1 migrations before it are reverted and out of the ledger, the k-th
\* and the later ones are applied and in the ledger, the other rows are as
\* they were, and runMigration was called for the first k only.
C23_FailFastDown ==
  \A r \in active :
    DownFailedAt(r) =>
      LET list == mig[r].list
          k == mig[r].idx + 1
      IN  /\ k <= Len(list)
          /\ mig[r].cur = list[k]
          /\ \A i \in 1..Len(list) :
               IF i < k
               THEN list[i] \notin Range(db.ledger) /\ list[i] \notin db.effects
               ELSE list[i] \in Range(db.ledger) /\ list[i] \in db.effects
          /\ db.ledger = SelectSeq(obs[r].pre.ledger,
                                    LAMBDA f : f \notin Range(SubSeq(list, 1, k - 1)))
          /\ obs[r].attempted = SubSeq(list, 1, k)

\* down(3) has reverted one migration and failed at the second of three
C23_Witness ==
  \E r \in active :
    /\ DownFailedAt(r)
    /\ Len(mig[r].list) = 3
    /\ mig[r].idx = 1
    /\ mig[r].err = "TransactionError"

\* the steps of runMigration inside sql.begin
InTx == {"tx_sql", "tx_write", "tx_commit"}

\* C24: a Migrator has a transaction open only inside runMigration, for the one
\* migration it is at; when runMigration is called for a migration of an up()
\* or down() batch, and as long as its transaction is open, the transactions
\* of all migrations before it in the batch have committed.
C24_Sequential ==
  \A r \in active :
    mig[r].op \in {"up", "down"} =>
      /\ mig[r].tx.open <=> mig[r].pc \in InTx
      /\ Len(obs[r].attempted) <= mig[r].idx + 1
      /\ mig[r].pc \in InTx =>
           /\ Len(obs[r].attempted) = mig[r].idx + 1
           /\ mig[r].cur = mig[r].list[mig[r].idx + 1]
           /\ mig[r].cur = obs[r].attempted[mig[r].idx + 1]
      /\ \A i \in 1..Len(obs[r].attempted) :
           i <= mig[r].idx =>
             IF mig[r].op = "up"
             THEN obs[r].attempted[i] \in Range(db.ledger)
             ELSE obs[r].attempted[i] \notin Range(db.ledger)

\* the transaction of the third migration of a down() batch is open, the first
\* two being reverted
C24_Witness ==
  \E r \in active :
    /\ mig[r].op = "down"
    /\ mig[r].pc = "tx_write"
    /\ mig[r].tx.open
    /\ mig[r].idx = 2
    /\ Len(db.ledger) = Len(obs[r].pre.ledger) - 2

\* C25: initialize() on a database that has the ledger table succeeds and
\* changes nothing, and on a database without it creates the empty table; at
\* the start of up(), down() and status() it leaves every ledger row as it
\* was, none lost and none added, also when its statement fails.
C25_InitializeIdempotent ==
  \A r \in active :
    mig[r].op # None =>
      /\ mig[r].pc = "init" => db = obs[r].pre
      /\ mig[r].pc = "read" =>
           /\ db = [obs[r].pre EXCEPT !.table = TRUE]
           /\ obs[r].pre.table => db = obs[r].pre
      /\ mig[r].err = "QueryError" => db = obs[r].pre
      /\ mig[r].op = "status" => db.ledger = obs[r].pre.ledger

\* initialize() has returned at the start of a down() on a database whose
\* ledger table holds two rows
C25_Witness ==
  \E r \in active :
    /\ mig[r].op = "down"
    /\ mig[r].pc = "read"
    /\ obs[r].pre.table
    /\ Len(db.ledger) = 2

\* the migrations whose transaction r has committed in its operation
Committed(r) == Range(SubSeq(obs[r].attempted, 1, mig[r].idx))

\* the other of the two Migrators
Other(r) == CHOOSE q \in Runners : q # r

\* C26: when two Migrators run up() at the same time, no migration is
\* committed by both nor committed again when it was in the ledger, the
\* ledger holds the rows it had and one row per committed migration, no name
\* twice, a migration is in the ledger exactly when its up-block is
\* committed, and a Migrator that called runMigration for a migration the
\* other has committed is inside its transaction for it or has failed at it
\* with a TransactionError, its transaction rolled back.
C26_UpRace ==
  (\A r \in Runners : r \in active /\ mig[r].op = "up") =>
    /\ Committed(1) \cap Committed(2) = {}
    /\ \A r \in Runners :
         /\ Committed(r) \cap Range(obs[r].pre.ledger) = {}
         /\ Len(db.ledger) = Len(obs[r].pre.ledger) + mig[1].idx + mig[2].idx
         /\ Range(db.ledger) = Range(obs[r].pre.ledger) \cup Committed(1) \cup Committed(2)
         /\ \A f \in Range(obs[r].attempted) \cap Committed(Other(r)) :
              /\ mig[r].cur = f
              /\ \/ mig[r].pc \in {"tx_sql", "tx_write"}
                 \/ /\ mig[r].pc = "failed"
                    /\ mig[r].err = "TransactionError"
                    /\ mig[r].tx = NoTx
    /\ \A i, j \in 1..Len(db.ledger) : db.ledger[i] = db.ledger[j] => i = j
    /\ Range(db.ledger) = db.effects

\* of two up() calls that read the same ledger, one has committed a migration
\* and the other has failed at it, its CREATE TABLE rejected
C26_Witness ==
  \E r \in Runners :
    /\ mig[r].op = "up" /\ mig[Other(r)].op = "up"
    /\ mig[r].pc = "failed"
    /\ mig[r].err = "TransactionError"
    /\ obs[r].rejected = "sql"
    /\ mig[r].cur \in Committed(Other(r))
    /\ mig[r].cur \in db.schema

\* C27: with two Migrators running down(), or down() and up(), at the same
\* time, every down transaction that commits has deleted one ledger row: no
\* down() has committed a transaction whose DELETE matched no row.
C27_Original ==
  \A r \in active : mig[r].op = "down" => obs[r].nZero = 0

\* down() of r failed because the file of a migration in its rollback list
\* could not be read, and the directory is as it was then
DownUnreadable(r) ==
  DownFailedAt(r) /\ mig[r].err = "ReadFileError"

\* C30: the rollback list of down(steps) is made from the ledger alone, files
\* missing from the migrations directory included; when the file of a listed
\* migration cannot be read, down() fails at it with no transaction opened
\* and no statement run for it, the database is as it was when runMigration
\* was called, the rows of that migration and of the later ones in the list
\* are in the ledger, and the migrations before it in the list stay reverted.
C30_DownLedgerAlone ==
  \A r \in active :
    /\ DownListed(r) =>
         /\ Range(mig[r].list) \subseteq Range(obs[r].pre.ledger)
         /\ Len(mig[r].list) = Len(Slice0(obs[r].pre.ledger, mig[r].steps))
         /\ \A f \in Range(obs[r].pre.ledger) \ Range(mig[r].list) :
              \A g \in Range(mig[r].list) : NameLess(f, g)
    /\ DownUnreadable(r) =>
         LET list == mig[r].list
             k == mig[r].idx + 1
         IN  /\ k <= Len(list)
             /\ mig[r].cur = list[k]
             /\ dir[list[k]] = NoFile
             /\ mig[r].tx = NoTx
             /\ db = obs[r].preRun
             /\ obs[r].nExec = k - 1
             /\ obs[r].nWrite = k - 1
             /\ \A i \in 1..Len(list) :
                  IF i < k
                  THEN list[i] \notin Range(db.ledger) /\ list[i] \notin db.effects
                  ELSE list[i] \in Range(db.ledger)
             /\ Len(db.ledger) = Len(obs[r].pre.ledger) - (k - 1)

\* down(2) has reverted one migration and failed at the second, whose file is
\* not in the migrations directory
C30_Witness ==
  \E r \in active :
    /\ DownUnreadable(r)
    /\ Len(mig[r].list) = 2
    /\ mig[r].idx = 1
    /\ mig[r].list[1] \notin Range(db.ledger)
    /\ mig[r].list[2] \in Range(db.ledger)

====
